---------------------------- MODULE Spec2Model ----------------------------
(***************************************************************************)
(* A state-machine model of the My-Stock-App repository: the Streamlit     *)
(* dispatcher app.py and the library functions of modules/module_NN.py     *)
(* that the repository's contract is stated about.  Each component has one *)
(* record-valued variable; a component that a specification does not       *)
(* exercise stays at its Off value.                                        *)
(***************************************************************************)
EXTENDS Integers, Sequences, FiniteSets, TLC

VARIABLES
    app,    \* app.py: one script execution context per browser session
    bt,     \* modules/module_11.py: a MassiveBacktester object and its pool
    pf,     \* modules/module_10.py: a Portfolio under construction
    tp,     \* modules/module_14.py: a TimingPredictor and one pattern match
    wt,     \* modules/module_08.py: one portfolio-weight computation
    iss,    \* modules/module_03.py: one integrated strategy score
    tk,     \* module_01.py: one identify_ticker call
    lq,     \* modules/module_01.py: one estimate_liquidity_size call
    ph,     \* modules/module_09.py: a performance history threaded through calls
    ac,     \* modules/module_26.py: a StrategyAutoControl object
    uh,     \* modules/module_09.py: a user's history file and the sessions saving to it
    eng     \* modules/module_22.py: an AutoExecutionEngine and its callers

vars == <<app, bt, pf, tp, wt, iss, tk, lq, ph, ac, uh, eng>>

Off == [pc |-> "off"]

\* The variables of the other components, per component.
othersApp == <<bt, pf, tp, wt, iss, tk, lq, ph, ac, uh, eng>>
othersBt == <<app, pf, tp, wt, iss, tk, lq, ph, ac, uh, eng>>
othersPf == <<app, bt, tp, wt, iss, tk, lq, ph, ac, uh, eng>>
othersTp == <<app, bt, pf, wt, iss, tk, lq, ph, ac, uh, eng>>
othersWt == <<app, bt, pf, tp, iss, tk, lq, ph, ac, uh, eng>>
othersSc == <<app, bt, pf, tp, wt, tk, lq, ph, ac, uh, eng>>
othersTk == <<app, bt, pf, tp, wt, iss, lq, ph, ac, uh, eng>>
othersLq == <<app, bt, pf, tp, wt, iss, tk, ph, ac, uh, eng>>
othersPh == <<app, bt, pf, tp, wt, iss, tk, lq, ac, uh, eng>>
othersAc == <<app, bt, pf, tp, wt, iss, tk, lq, ph, uh, eng>>
othersUh == <<app, bt, pf, tp, wt, iss, tk, lq, ph, ac, eng>>
othersEng == <<app, bt, pf, tp, wt, iss, tk, lq, ph, ac, uh>>

(***************************************************************************)
(* Generic helpers                                                         *)
(***************************************************************************)
Range(f) == {f[i] : i \in DOMAIN f}

RECURSIVE SeqsUpTo(_, _)
SeqsUpTo(S, n) ==
    IF n = 0 THEN {<<>>}
    ELSE LET shorter == SeqsUpTo(S, n - 1)
         IN  shorter \cup {Append(q, x) : q \in {r \in shorter : Len(r) = n - 1}, x \in S}

SeqsOfLen(S, n) == {q \in SeqsUpTo(S, n) : Len(q) = n}

(***************************************************************************)
(* app.py : the sidebar dispatcher                                         *)
(***************************************************************************)
NumSessions == 2      \* browser sessions, each re-running the script
MaxReruns == 5        \* script executions per session

Sessions == 1..NumSessions

\* The 30 sidebar labels of app.py lines 29-58, identified by their number.
NumLabels == 30
Labels == 1..NumLabels

\* Names defined at top level of src/modules_device_detector.py.
DetectorExports ==
    {"detect_device_info", "get_device_class", "render_device_banner",
     "device_adjusted_strategy", "run_device_detector"}

\* N such that modules/module_NN.py binds the module-level name `run`
\* (a later `def run` rebinds an earlier one; module_01, 02, 21, 22, 25, 28
\* and 30 define none).
RunDefined == Labels \ {1, 2, 21, 22, 25, 28, 30}

AppStatements ==
    <<"import_detector", "import_modules", "load_config", "device_layout",
      "sidebar_title", "build_table", "selectbox", "title", "dispatch", "footer">>

StmtIndex(name) == CHOOSE i \in DOMAIN AppStatements : AppStatements[i] = name

AppFresh(runs) ==
    [pc |-> AppStatements[1], modules |-> <<>>, selected_module |-> 0, invoked |-> <<>>,
     footer |-> FALSE, error |-> "none", runs |-> runs]

AppRaise(a, exc) == [a EXCEPT !.pc = "ended", !.error = exc]
AppAdvance(a) ==
    [a EXCEPT !.pc = IF StmtIndex(a.pc) = Len(AppStatements)
                     THEN "ended" ELSE AppStatements[StmtIndex(a.pc) + 1]]

\* app.py line 5: from modules.modules_device_detector import detect_device
ImportDetector(a) ==
    IF "detect_device" \in DetectorExports
    THEN AppAdvance(a) ELSE AppRaise(a, "ImportError")

\* app.py lines 28-59: the dict literal evaluates module_NN.run for N = 01..30
\* in order; a module without the attribute raises AttributeError.
BuildTable(a) ==
    IF Labels \subseteq RunDefined
    THEN AppAdvance([a EXCEPT !.modules = [n \in Labels |-> n]])
    ELSE AppRaise(a, "AttributeError")

\* app.py line 60: st.sidebar.selectbox over list(modules.keys())
Selectbox(a, choice) == AppAdvance([a EXCEPT !.selected_module = choice])

\* app.py line 66: modules[selected_module]()
Dispatch(a) ==
    AppAdvance([a EXCEPT !.invoked = Append(a.invoked, a.modules[a.selected_module])])

\* app.py lines 69-75
Footer(a) == AppAdvance([a EXCEPT !.footer = TRUE])

AppExec(a, choice) ==
    LET stmt == a.pc IN
    CASE stmt = "import_detector" -> ImportDetector(a)
      [] stmt = "build_table"     -> BuildTable(a)
      [] stmt = "selectbox"       -> Selectbox(a, choice)
      [] stmt = "dispatch"        -> Dispatch(a)
      [] stmt = "footer"          -> Footer(a)
      [] OTHER                    -> AppAdvance(a)

AppIdle == [s \in Sessions |-> [AppFresh(0) EXCEPT !.pc = "idle"]]

InitApp ==
    /\ app = AppIdle
    /\ bt = Off
    /\ pf = Off
    /\ tp = Off
    /\ wt = Off
    /\ iss = Off
    /\ tk = Off
    /\ lq = Off
    /\ ph = Off
    /\ ac = Off
    /\ uh = Off
    /\ eng = Off

\* Streamlit starts (or re-runs) the script for a session.
AppRun(s) ==
    /\ app[s].pc \in {"idle", "ended"}
    /\ app[s].runs < MaxReruns
    /\ app' = [app EXCEPT ![s] = AppFresh(app[s].runs + 1)]
    /\ UNCHANGED othersApp

\* The script executes its next statement.
AppStep(s) ==
    /\ app[s].pc \in Range(AppStatements)
    /\ \E choice \in Labels : app' = [app EXCEPT ![s] = AppExec(app[s], choice)]
    /\ UNCHANGED othersApp

NextApp == \E s \in Sessions : AppRun(s) \/ AppStep(s)

SpecApp == InitApp /\ [][NextApp]_vars

\* C1: every script execution that has ended built the table of exactly 30
\* labels with label N bound to module N's run, invoked exactly the callable
\* of the selected label, once, and then rendered the footer.
C1_DispatchesSelected ==
    \A s \in Sessions :
        app[s].pc = "ended" =>
            /\ DOMAIN app[s].modules = Labels
            /\ \A n \in Labels : app[s].modules[n] = n
            /\ app[s].selected_module \in Labels
            /\ app[s].invoked = <<app[s].selected_module>>
            /\ app[s].footer

(***************************************************************************)
(* modules/module_11.py : MassiveBacktester                                *)
(***************************************************************************)
MaxRunsBound == 3     \* largest max_runs explored
NumWorkers == 2       \* mp.cpu_count() worker processes of the pool

Workers == 1..NumWorkers

\* Scenarios as sample_scenario_generator builds them: {"seed", "days"}.
ScenarioPool == {[seed |-> 1, days |-> 252], [seed |-> 2, days |-> 504]}

\* sample_scenario_generator(n): a list of exactly n random scenarios.
sample_scenario_generator(n) == SeqsOfLen(ScenarioPool, n)

\* What one call of a strategy function does with its scenario.
OutcomeKinds == {"with_return", "without_return", "return_and_error", "not_a_dict", "raises"}

\* Python values a strategy returns: a dict (its key set, and the scenario it
\* was computed from) or a non-dict.
Dict(keys, scenario) == [type |-> "dict", keys |-> keys, scenario |-> scenario]
NonDict(scenario) == [type |-> "NoneType", keys |-> {}, scenario |-> scenario]

\* module_04.calc_performance_metrics: the five metric keys (the source's
\* Korean labels, transliterated).
calc_performance_metrics ==
    {"cum_return", "annualized_return", "max_dd", "sharpe_ratio", "calmar_ratio"}

\* example_strategy_fn: metrics of a dummy portfolio plus the key "scenario";
\* it raises for no scenario of the pool.
example_strategy_fn(scenario) ==
    [raised |-> FALSE,
     value |-> Dict(calc_performance_metrics \cup {"scenario"}, scenario)]

\* A strategy function that is a deterministic function of its scenario.
CustomStrategy(out, scenario) ==
    LET kind == out[scenario.seed] IN
    [raised |-> kind = "raises",
     value |-> CASE kind = "with_return" -> Dict({"return", "mdd", "volatility"}, scenario)
                 [] kind = "without_return" -> Dict({"mdd", "volatility"}, scenario)
                 [] kind = "return_and_error" -> Dict({"return", "error"}, scenario)
                 [] OTHER -> NonDict(scenario)]

StrategyFns ==
    {[name |-> "example_strategy_fn", out |-> <<>>]}
    \cup {[name |-> "custom", out |-> o] : o \in [{1, 2} -> OutcomeKinds]}

StrategyCall(fn, scenario) ==
    IF fn.name = "example_strategy_fn"
    THEN example_strategy_fn(scenario)
    ELSE CustomStrategy(fn.out, scenario)

ErrorRecord(scenario) == Dict({"error"}, scenario)

\* A variant without the try/except: the exception leaves the function.
RunSingleSimulationUnguarded(fn, scenario) == StrategyCall(fn, scenario)

\* MassiveBacktester._run_single_simulation: try/except Exception around the
\* call; an exception becomes an {"error": ...} record.
RunSingleSimulation(fn, scenario) ==
    LET call == StrategyCall(fn, scenario) IN
    IF call.raised
    THEN [raised |-> FALSE, value |-> ErrorRecord(scenario)]
    ELSE call

\* run, line 45: isinstance(r, dict) and "return" in r and not "error" in r
IsValidResult(r) == r.type = "dict" /\ "return" \in r.keys /\ "error" \notin r.keys

FilterValid(raw) == SelectSeq(raw, IsValidResult)

BtConstructed(fn, n) ==
    [pc |-> "constructed", strategy_fn |-> fn, max_runs |-> n, parallel |-> FALSE,
     scenarios |-> <<>>, next_task |-> 1, worker |-> [w \in Workers |-> 0],
     outq |-> {}, raw |-> <<>>, results |-> <<>>, df |-> <<>>]

InitBacktest ==
    /\ bt \in {BtConstructed(fn, n) : fn \in StrategyFns, n \in 0..MaxRunsBound}
    /\ app = Off
    /\ pf = Off
    /\ tp = Off
    /\ wt = Off
    /\ iss = Off
    /\ tk = Off
    /\ lq = Off
    /\ ph = Off
    /\ ac = Off
    /\ uh = Off
    /\ eng = Off

\* run, lines 33-36: generate the scenarios and choose the branch.  A new run
\* on the same object starts from the results the last one left.
BtRun(parallel) ==
    /\ bt.pc \in {"constructed", "returned"}
    /\ \E sc \in sample_scenario_generator(bt.max_runs) :
          bt' = [bt EXCEPT !.pc = "mapping", !.parallel = parallel, !.scenarios = sc,
                           !.next_task = 1, !.outq = {}, !.raw = <<>>, !.df = <<>>]
    /\ UNCHANGED othersBt

\* run, line 42: the list comprehension evaluates the next scenario.
BtSequentialStep ==
    /\ bt.pc = "mapping" /\ ~bt.parallel
    /\ Len(bt.raw) < Len(bt.scenarios)
    /\ LET r == RunSingleSimulation(bt.strategy_fn, bt.scenarios[Len(bt.raw) + 1]) IN
       bt' = IF r.raised THEN [bt EXCEPT !.pc = "propagated"]
             ELSE [bt EXCEPT !.raw = Append(bt.raw, r.value)]
    /\ UNCHANGED othersBt

\* Pool worker: take the next task from the task queue (imap feeds the tasks
\* in list order, chunksize 1).
BtWorkerTake(w) ==
    /\ bt.pc = "mapping" /\ bt.parallel
    /\ bt.worker[w] = 0
    /\ bt.next_task <= Len(bt.scenarios)
    /\ bt' = [bt EXCEPT !.worker[w] = bt.next_task, !.next_task = bt.next_task + 1]
    /\ UNCHANGED othersBt

\* Pool worker: run _run_single_simulation in its own process (a pickled
\* copy of self) and put (index, outcome) on the result queue.
BtWorkerFinish(w) ==
    /\ bt.pc = "mapping" /\ bt.parallel
    /\ bt.worker[w] # 0
    /\ LET i == bt.worker[w]
           r == RunSingleSimulation(bt.strategy_fn, bt.scenarios[i]) IN
       bt' = [bt EXCEPT !.worker[w] = 0,
                        !.outq = bt.outq \cup {[index |-> i, outcome |-> r]}]
    /\ UNCHANGED othersBt

\* A variant that yields results in completion order (imap_unordered).
ImapUnorderedReady(b) == b.outq

\* pool.imap: the iterator yields the result of task len(collected)+1 only.
ImapReady(b) == {e \in b.outq : e.index = Len(b.raw) + 1}

\* run, lines 38-40: list(...) consumes the next result the iterator yields;
\* a task that raised re-raises in the parent.
BtImapYield ==
    /\ bt.pc = "mapping" /\ bt.parallel
    /\ \E e \in ImapReady(bt) :
          bt' = IF e.outcome.raised THEN [bt EXCEPT !.pc = "propagated"]
                ELSE [bt EXCEPT !.raw = Append(bt.raw, e.outcome.value),
                                !.outq = bt.outq \ {e}]
    /\ UNCHANGED othersBt

\* run, lines 38/42: the collected list is assigned to self.results.
BtCollect ==
    /\ bt.pc = "mapping"
    /\ Len(bt.raw) = Len(bt.scenarios)
    /\ bt' = [bt EXCEPT !.pc = "filter", !.results = bt.raw]
    /\ UNCHANGED othersBt

\* run, lines 44-48: keep the valid results and return them as a DataFrame.
BtFilter ==
    /\ bt.pc = "filter"
    /\ bt' = [bt EXCEPT !.pc = "returned", !.results = FilterValid(bt.results),
                        !.df = FilterValid(bt.results)]
    /\ UNCHANGED othersBt

NextBacktest ==
    \/ \E p \in BOOLEAN : BtRun(p)
    \/ BtSequentialStep
    \/ \E w \in Workers : BtWorkerTake(w) \/ BtWorkerFinish(w)
    \/ BtImapYield
    \/ BtCollect
    \/ BtFilter

SpecBacktest == InitBacktest /\ [][NextBacktest]_vars

\* The configuration of the module's own example (lines 124-130).
InitBacktestShipped ==
    /\ bt \in {BtConstructed([name |-> "example_strategy_fn", out |-> <<>>], n) :
                n \in 0..MaxRunsBound}
    /\ app = Off
    /\ pf = Off
    /\ tp = Off
    /\ wt = Off
    /\ iss = Off
    /\ tk = Off
    /\ lq = Off
    /\ ph = Off
    /\ ac = Off
    /\ uh = Off
    /\ eng = Off

SpecBacktestShipped == InitBacktestShipped /\ [][NextBacktest]_vars

\* Indices of the scenarios whose strategy call returned without raising.
NotRaising(b) ==
    {i \in 1..Len(b.scenarios) : ~StrategyCall(b.strategy_fn, b.scenarios[i]).raised}

\* C2: the returned DataFrame has one row for every scenario whose strategy
\* call returned without raising; with the shipped example every scenario
\* contributes a row.
C2_RowPerReturnedScenario ==
    bt.pc = "returned" =>
        /\ Len(bt.df) = Cardinality(NotRaising(bt))
        /\ bt.strategy_fn.name = "example_strategy_fn" => Len(bt.df) = bt.max_runs

\* The sequential branch computed as a whole: the list comprehension of line
\* 42 followed by the filter of lines 44-46.
RunSequential(fn, scenarios) ==
    FilterValid([i \in 1..Len(scenarios) |-> RunSingleSimulation(fn, scenarios[i]).value])

\* C3: a parallel run returns what the sequential run returns for the same
\* scenario list, whatever the workers' interleaving and completion order.
C3_ParallelEqualsSequential ==
    (bt.pc = "returned" /\ bt.parallel) =>
        /\ bt.results = RunSequential(bt.strategy_fn, bt.scenarios)
        /\ bt.df = RunSequential(bt.strategy_fn, bt.scenarios)

\* C3 witness: a parallel run returned two or more different rows.
C3_Witness ==
    /\ bt.pc = "returned" /\ bt.parallel
    /\ Len(bt.df) >= 2
    /\ \E i, j \in 1..Len(bt.df) : bt.df[i] # bt.df[j]

\* C4: an exception of the strategy function never leaves run; the scenario
\* yields an error record that is dropped, every scenario is evaluated, and
\* after run returns self.results holds only dicts with "return" and without
\* "error", at most max_runs of them, all from this run.
C4_ExceptionsContained ==
    /\ bt.pc # "propagated"
    /\ bt.pc = "returned" =>
        /\ Len(bt.raw) = bt.max_runs
        /\ \A i \in 1..Len(bt.raw) :
              StrategyCall(bt.strategy_fn, bt.scenarios[i]).raised
                  => bt.raw[i] = ErrorRecord(bt.scenarios[i])
        /\ \A i \in 1..Len(bt.results) :
              /\ bt.results[i].type = "dict"
              /\ "return" \in bt.results[i].keys
              /\ "error" \notin bt.results[i].keys
              /\ \E j \in 1..Len(bt.raw) : bt.raw[j] = bt.results[i]
        /\ \A j \in 1..Len(bt.raw) :
              ("error" \in bt.raw[j].keys) =>
                  /\ \A i \in 1..Len(bt.results) : bt.results[i] # bt.raw[j]
                  /\ \A i \in 1..Len(bt.df) : bt.df[i] # bt.raw[j]
        /\ Len(bt.results) <= bt.max_runs
        /\ bt.df = bt.results

\* C4 witness: a run returned although one scenario's call raised, and kept
\* the result of another scenario.
C4_Witness ==
    /\ bt.pc = "returned"
    /\ \E i \in 1..Len(bt.scenarios) : StrategyCall(bt.strategy_fn, bt.scenarios[i]).raised
    /\ Len(bt.results) >= 1

(***************************************************************************)
(* modules/module_10.py : safe_run and Portfolio                           *)
(***************************************************************************)
MaxTickers == 3       \* longest ticker list explored

TickerPool == {"AAPL", "MSFT"}

\* Python values: a DataFrame (its rows, each tagged with its "Ticker"
\* column) or None.
DataFrame(rows) == [type |-> "DataFrame", rows |-> rows]
None == [type |-> "NoneType", rows |-> <<>>]

\* yf.download(ticker, period="1y"): raises, or returns a frame of some rows
\* (none for an unknown ticker).
DownloadOutcomes ==
    {[raised |-> TRUE, nrows |-> 0]} \cup {[raised |-> FALSE, nrows |-> n] : n \in {0, 1, 2}}

\* Portfolio.fetch_data's body (lines 39-41): download, tag every row with
\* the ticker, return the frame.
FetchDataBody(ticker, dl) ==
    IF dl.raised
    THEN [raised |-> TRUE, value |-> None]
    ELSE [raised |-> FALSE, value |-> DataFrame([k \in 1..dl.nrows |-> ticker])]

\* A wrapper that logs nothing and lets the exception through.
SafeRunReraising(call) == [raised |-> call.raised, value |-> call.value, warned |-> FALSE]

\* safe_run's wrapper (lines 23-28) applied to the outcome of func(*args):
\* an Exception is logged as a warning and None is returned.
SafeRun(call) ==
    IF call.raised
    THEN [raised |-> FALSE, value |-> None, warned |-> TRUE]
    ELSE [raised |-> FALSE, value |-> call.value, warned |-> FALSE]

RECURSIVE Concat(_)
\* pd.concat(all_data): the frames' rows, in list order.
Concat(frames) ==
    IF frames = <<>> THEN <<>>
    ELSE Head(frames).rows \o Concat(Tail(frames))

PfStart(tickers) ==
    [pc |-> "fetch_all_data", tickers |-> tickers, calls |-> <<>>, fetched |-> <<>>,
     all_data |-> <<>>, warnings |-> 0, data |-> None]

InitPortfolio ==
    /\ pf \in {PfStart(t) : t \in SeqsUpTo(TickerPool, MaxTickers)}
    /\ app = Off
    /\ bt = Off
    /\ tp = Off
    /\ wt = Off
    /\ iss = Off
    /\ tk = Off
    /\ lq = Off
    /\ ph = Off
    /\ ac = Off
    /\ uh = Off
    /\ eng = Off

\* fetch_all_data, lines 45-48: one iteration of the loop over self.tickers.
PfFetch ==
    /\ pf.pc = "fetch_all_data"
    /\ Len(pf.fetched) < Len(pf.tickers)
    /\ \E dl \in DownloadOutcomes :
          LET ticker == pf.tickers[Len(pf.fetched) + 1]
              call == FetchDataBody(ticker, dl)
              df == SafeRun(call) IN
          pf' = IF df.raised THEN [pf EXCEPT !.pc = "propagated"]
                ELSE [pf EXCEPT !.calls = Append(pf.calls, call),
                                !.fetched = Append(pf.fetched, df.value),
                                !.warnings = pf.warnings + (IF df.warned THEN 1 ELSE 0),
                                !.all_data = IF df.value # None
                                             THEN Append(pf.all_data, df.value)
                                             ELSE pf.all_data]
    /\ UNCHANGED othersPf

\* fetch_all_data, line 49, and __init__, line 35.
PfReturn ==
    /\ pf.pc = "fetch_all_data"
    /\ Len(pf.fetched) = Len(pf.tickers)
    /\ pf' = [pf EXCEPT !.pc = "constructed",
                        !.data = IF pf.all_data # <<>>
                                 THEN DataFrame(Concat(pf.all_data))
                                 ELSE DataFrame(<<>>)]
    /\ UNCHANGED othersPf

NextPortfolio == PfFetch \/ PfReturn

SpecPortfolio == InitPortfolio /\ [][NextPortfolio]_vars

\* Rows of the frames that the calls for tickers[i..] returned, in order.
RECURSIVE RowsOfReturned(_)
RowsOfReturned(calls) ==
    IF calls = <<>> THEN <<>>
    ELSE (IF Head(calls).raised THEN <<>> ELSE Head(calls).value.rows)
         \o RowsOfReturned(Tail(calls))

\* C5: the wrapper never lets an Exception through: a raising call gives None
\* and one logged warning, any other call gives the function's own result;
\* fetch_all_data therefore completes for every ticker list, holds the rows of
\* exactly the tickers whose fetch returned, and is the empty DataFrame when
\* every fetch failed.
C5_SafeRunContains ==
    /\ pf.pc # "propagated"
    /\ pf.pc \in {"fetch_all_data", "constructed"} =>
        /\ \A i \in 1..Len(pf.calls) :
              IF pf.calls[i].raised
              THEN pf.fetched[i] = None
              ELSE pf.fetched[i] = pf.calls[i].value
        /\ pf.warnings = Cardinality({i \in 1..Len(pf.calls) : pf.calls[i].raised})
        /\ (Len(pf.fetched) < Len(pf.tickers)) => ENABLED PfFetch
    /\ pf.pc = "constructed" =>
        /\ Len(pf.calls) = Len(pf.tickers)
        /\ pf.data.type = "DataFrame"
        /\ pf.data.rows = RowsOfReturned(pf.calls)
        /\ (\A i \in 1..Len(pf.calls) : pf.calls[i].raised) => pf.data = DataFrame(<<>>)

\* C5 witness: the portfolio was built although one fetch raised, and holds
\* the rows of another ticker.
C5_Witness ==
    /\ pf.pc = "constructed"
    /\ \E i \in 1..Len(pf.calls) : pf.calls[i].raised
    /\ pf.data.rows # <<>>

(***************************************************************************)
(* modules/module_14.py : TimingPredictor.match_similar_patterns           *)
(***************************************************************************)
MaxPriceLen == 3      \* longest price series explored
MaxRefLen == 3        \* longest reference series explored
MaxWindow == 2        \* largest window_size explored

PriceLevels == {10, 20, 40}

Abs(x) == IF x < 0 THEN -x ELSE x
Min2(x, y) == IF x <= y THEN x ELSE y
SeqMin(q) == CHOOSE x \in Range(q) : \A y \in Range(q) : x <= y
Tail_(q, n) == SubSeq(q, Len(q) - n + 1, Len(q))    \* Series.tail(n)

\* MinMaxScaler fitted on `fit` and applied to `xs`: (x - min) / (max - min),
\* with divisor 1 for a constant window.  The divisor is the same positive
\* number for every value scaled by one fitted scaler, so the values are kept
\* as their numerators x - min; every distance below is in units of 1/divisor.
MinMaxScale(fit, xs) == [i \in 1..Len(xs) |-> xs[i] - SeqMin(fit)]

\* fastdtw(a, b, dist=euclidean): the dynamic-time-warping distance of two
\* scalar series (fastdtw's radius-1 band covers the whole matrix for the
\* window sizes explored).
DTW(a, b) ==
    LET Inf == 1000000
        D[i \in 0..Len(a), j \in 0..Len(b)] ==
            IF i = 0 /\ j = 0 THEN 0
            ELSE IF i = 0 \/ j = 0 THEN Inf
            ELSE Abs(a[i] - b[j]) + Min2(D[i - 1, j], Min2(D[i, j - 1], D[i - 1, j - 1]))
    IN  D[Len(a), Len(b)]

NoMatch == [found |-> FALSE, start |-> 0, period |-> <<>>]

\* match_similar_patterns (lines 65-89); the returned score is left out.
match_similar_patterns(close, reference_close, window_size) ==
    IF Len(close) < window_size \/ Len(reference_close) < window_size
    THEN NoMatch
    ELSE LET current_window == MinMaxScale(Tail_(close, window_size), Tail_(close, window_size))
             ref_scaled == MinMaxScale(Tail_(close, window_size), reference_close)
             \* range(len(reference_close) - window_size)
             starts == 0..(Len(reference_close) - window_size - 1)
             distance(start) ==
                 DTW(current_window, SubSeq(ref_scaled, start + 1, start + window_size))
         IN  IF starts = {} THEN NoMatch
             ELSE LET \* stable sort by distance: the lowest start among the minima
                      top_start == CHOOSE t \in starts :
                          \A u \in starts :
                              \/ distance(t) < distance(u)
                              \/ distance(t) = distance(u) /\ t <= u
                  IN  [found |-> TRUE, start |-> top_start,
                       period |-> SubSeq(reference_close, top_start + 1, top_start + window_size)]

InitTiming ==
    /\ tp \in {[pc |-> "ready", close |-> c, reference |-> r, window_size |-> w,
                result |-> NoMatch] :
                  c \in SeqsUpTo(PriceLevels, MaxPriceLen),
                  r \in SeqsUpTo(PriceLevels, MaxRefLen),
                  w \in 1..MaxWindow}
    /\ app = Off
    /\ bt = Off
    /\ pf = Off
    /\ wt = Off
    /\ iss = Off
    /\ tk = Off
    /\ lq = Off
    /\ ph = Off
    /\ ac = Off
    /\ uh = Off
    /\ eng = Off

TpMatch ==
    /\ tp.pc = "ready"
    /\ tp' = [tp EXCEPT !.pc = "matched",
                        !.result = match_similar_patterns(tp.close, tp.reference, tp.window_size)]
    /\ UNCHANGED othersTp

NextTiming == TpMatch

SpecTiming == InitTiming /\ [][NextTiming]_vars

\* The DTW distance of the reference window at `start` to the last
\* window_size closing prices, computed on the scaled series.
WindowDistance(t, start) ==
    DTW(MinMaxScale(Tail_(t.close, t.window_size), Tail_(t.close, t.window_size)),
        MinMaxScale(Tail_(t.close, t.window_size),
                    SubSeq(t.reference, start + 1, start + t.window_size)))

\* C6: the matcher returns None only when the price series or the reference
\* series has fewer than window_size rows; otherwise it returns a block of
\* window_size consecutive reference rows whose DTW distance is minimal over
\* all start positions 0 .. len(reference) - window_size.
C6_NearestWindow ==
    tp.pc = "matched" =>
        IF Len(tp.close) < tp.window_size \/ Len(tp.reference) < tp.window_size
        THEN ~tp.result.found
        ELSE /\ tp.result.found
             /\ tp.result.start \in 0..(Len(tp.reference) - tp.window_size)
             /\ tp.result.period
                  = SubSeq(tp.reference, tp.result.start + 1, tp.result.start + tp.window_size)
             /\ \A u \in 0..(Len(tp.reference) - tp.window_size) :
                    WindowDistance(tp, tp.result.start) <= WindowDistance(tp, u)

(***************************************************************************)
(* modules/module_08.py : portfolio weights                                *)
(***************************************************************************)
MaxAssets == 2        \* most rows of the stock table explored

ScoreLevels == {-1, 0, 2}         \* values of the score column
RiskUnits == {0, 1, 2}            \* values of the risk column, in units of 1e-5
RawWeightLevels == {0, 1, 3}      \* raw weights, in tenths
CorrHalves == {-2, -1, 0, 1, 2}   \* off-diagonal correlation, in halves

RECURSIVE SeqSum(_)
SeqSum(q) == IF q = <<>> THEN 0 ELSE Head(q) + SeqSum(Tail(q))

RECURSIVE SeqProduct(_)
SeqProduct(q) == IF q = <<>> THEN 1 ELSE Head(q) * SeqProduct(Tail(q))

\* numpy's `x / x.sum()` on an array of rationals num[i] / den (den > 0): a
\* zero sum gives 0/0 = nan in every element (a RuntimeWarning, no exception).
\* The result is num[i] / sum, or nan.
Normalise(num) ==
    IF SeqSum(num) = 0
    THEN [nan |-> num # <<>>, num |-> num, den |-> 0]
    ELSE [nan |-> FALSE, num |-> num, den |-> SeqSum(num)]

\* optimize_portfolio_weights (lines 67-70): score^2 / (risk + 1e-5),
\* normalised.  With risk in units of 1e-5 the i-th raw weight is
\* score[i]^2 / (risk[i] + 1) units; the weights are brought to the common
\* denominator prod(risk[j] + 1).
optimize_portfolio_weights(score, risk) ==
    LET denom == [i \in 1..Len(risk) |-> risk[i] + 1]
        weights == [i \in 1..Len(score) |->
                       score[i] * score[i]
                       * SeqProduct([j \in 1..Len(denom) |-> IF j = i THEN 1 ELSE denom[j]])]
    IN  Normalise(weights)

\* np.linalg.pinv of the 2x2 correlation matrix [[1, c], [c, 1]], c = k/2,
\* times the vector raw, up to a positive factor: for |c| < 1 the inverse is
\* [[1, -c], [-c, 1]] / (1 - c^2); for c = 1 or -1 the pseudo-inverse is
\* [[1, c], [c, 1]] / 4.
PinvTimes(k, raw) ==
    IF k \in {-2, 2}
    THEN <<raw[1] + (k \div 2) * raw[2], (k \div 2) * raw[1] + raw[2]>>
    ELSE <<2 * raw[1] - k * raw[2], 2 * raw[2] - k * raw[1]>>

\* np.clip(weights, 0, None)
ClipLow(q) == [i \in 1..Len(q) |-> IF q[i] < 0 THEN 0 ELSE q[i]]

\* build_correlation_adjusted_portfolio (lines 84-88); no step of it raises
\* for a 2x2 matrix, so the except branch of line 89 is not entered.
build_correlation_adjusted_portfolio(k, raw) == Normalise(ClipLow(PinvTimes(k, raw)))

InitWeights ==
    /\ wt \in UNION {{[pc |-> "ready", fn |-> "optimize_portfolio_weights", score |-> sc,
                       risk |-> rk, corr |-> 0, raw |-> <<>>,
                       weights |-> [nan |-> FALSE, num |-> <<>>, den |-> 0]] :
                         sc \in SeqsOfLen(ScoreLevels, n),
                         rk \in SeqsOfLen(RiskUnits, n)} : n \in 1..MaxAssets}
            \cup
            {[pc |-> "ready", fn |-> "build_correlation_adjusted_portfolio", score |-> <<>>,
                risk |-> <<>>, corr |-> k, raw |-> rw,
                weights |-> [nan |-> FALSE, num |-> <<>>, den |-> 0]] :
                  k \in CorrHalves, rw \in SeqsOfLen(RawWeightLevels, 2)}
    /\ app = Off
    /\ bt = Off
    /\ pf = Off
    /\ tp = Off
    /\ iss = Off
    /\ tk = Off
    /\ lq = Off
    /\ ph = Off
    /\ ac = Off
    /\ uh = Off
    /\ eng = Off

WtOptimize ==
    /\ wt.pc = "ready" /\ wt.fn = "optimize_portfolio_weights"
    /\ wt' = [wt EXCEPT !.pc = "done",
                        !.weights = optimize_portfolio_weights(wt.score, wt.risk)]
    /\ UNCHANGED othersWt

WtCorrelationAdjust ==
    /\ wt.pc = "ready" /\ wt.fn = "build_correlation_adjusted_portfolio"
    /\ wt' = [wt EXCEPT !.pc = "done",
                        !.weights = build_correlation_adjusted_portfolio(wt.corr, wt.raw)]
    /\ UNCHANGED othersWt

NextWeights == WtOptimize \/ WtCorrelationAdjust

SpecWeights == InitWeights /\ [][NextWeights]_vars

IsDistribution(w) ==
    /\ ~w.nan
    /\ w.den > 0
    /\ \A i \in 1..Len(w.num) : 0 <= w.num[i] /\ w.num[i] <= w.den
    /\ SeqSum(w.num) = w.den

\* C7: the weights returned by optimize_portfolio_weights for positive risk
\* values, and by build_correlation_adjusted_portfolio for every correlation
\* matrix and raw weight vector, are each within [0, 1] and sum to 1.
C7_WeightsFormDistribution ==
    (wt.pc = "done" /\ \A i \in 1..Len(wt.risk) : wt.risk[i] > 0)
        => IsDistribution(wt.weights)

(***************************************************************************)
(* modules/module_03.py : integrate_strategy_scores                        *)
(***************************************************************************)
\* Floats are kept as exact rationals num / den (den > 0), or nan.
ValuationLevels == {-50, 0, 50, 150}     \* valuation score
TechnicalLevels == {0, 30, 100}          \* technical score
SentimentHalves == {-4, -2, 0, 1, 2}     \* sentiment score, in halves
WeightTenths == {-5, 0, 2, 4, 5, 10}     \* one weight, in tenths

Rational(num, den) ==
    IF den < 0 THEN [nan |-> FALSE, num |-> -num, den |-> -den]
    ELSE [nan |-> FALSE, num |-> num, den |-> den]
NaN == [nan |-> TRUE, num |-> 0, den |-> 1]

Sign(x) == IF x > 0 THEN 1 ELSE IF x < 0 THEN -1 ELSE 0

\* A variant that returns the weighted sum unclipped.
NoClip(x) == x

\* np.clip(total, 0, 100) on a rational or nan (nan stays nan).
Clip0To100(x) ==
    IF x.nan THEN x
    ELSE IF x.num < 0 THEN Rational(0, 1)
    ELSE IF x.num > 100 * x.den THEN Rational(100, 1)
    ELSE x

\* The weighted sum of line 119 when the weights were divided by a zero sum:
\* each w[i] / 0 is +inf, -inf or nan (numpy warns, nothing is raised), a
\* product with 0 is nan, and +inf + -inf is nan.  The clipped value of +inf
\* is 100 and of -inf is 0.
TotalOverZeroSum(x, w) ==
    LET term(i) == IF w[i] = 0 \/ x[i] = 0 THEN "nan"
                   ELSE IF Sign(w[i]) * Sign(x[i]) > 0 THEN "+inf" ELSE "-inf"
        terms == {term(i) : i \in 1..3}
    IN  IF "nan" \in terms \/ terms = {"+inf", "-inf"} THEN NaN
        ELSE IF terms = {"+inf"} THEN Rational(101, 1)
        ELSE Rational(-1, 1)

\* integrate_strategy_scores (lines 113-120).  sentiment is in halves and the
\* weights in tenths; np.isclose(w.sum(), 1.0) is "the tenths sum to 10".
integrate_strategy_scores(valuation, technical, sentiment, weights) ==
    LET wsum == weights[1] + weights[2] + weights[3]
        \* (sentiment + 1) / 2 * 100
        senti_scaled == (sentiment + 2) * 25
        x == <<valuation, technical, senti_scaled>>
        dot == x[1] * weights[1] + x[2] * weights[2] + x[3] * weights[3]
        total == IF wsum = 10 THEN Rational(dot, 10)
                 ELSE IF wsum = 0 THEN TotalOverZeroSum(x, weights)
                 ELSE Rational(dot, wsum)
    IN  Clip0To100(total)

InitScore ==
    /\ iss \in {[pc |-> "ready", valuation |-> v, technical |-> t, sentiment |-> s,
                weights |-> w, total_score |-> NaN] :
                  v \in ValuationLevels, t \in TechnicalLevels, s \in SentimentHalves,
                  w \in SeqsOfLen(WeightTenths, 3)}
    /\ app = Off
    /\ bt = Off
    /\ pf = Off
    /\ tp = Off
    /\ wt = Off
    /\ tk = Off
    /\ lq = Off
    /\ ph = Off
    /\ ac = Off
    /\ uh = Off
    /\ eng = Off

ScIntegrate ==
    /\ iss.pc = "ready"
    /\ iss' = [iss EXCEPT !.pc = "done",
                        !.total_score = integrate_strategy_scores(
                            iss.valuation, iss.technical, iss.sentiment, iss.weights)]
    /\ UNCHANGED othersSc

NextScore == ScIntegrate

SpecScore == InitScore /\ [][NextScore]_vars

MaxRunLen == 11       \* longest run of one character in an input

\* A string is a sequence of characters; one character stands for each class
\* the code distinguishes: a digit, a lower-case and an upper-case ASCII
\* letter, '-', '.', a blank, and a Hangul syllable.
Digits == {"7"}
Letters == {"a", "A"}
Chars == Digits \cup Letters \cup {"-", ".", " ", "k"}
Whitespace == {" "}

TickerDigits == 6     \* \d{6}
TickerMaxLen == 10    \* [A-Za-z\-\.]{1,10}

Rep(c, n) == [i \in 1..n |-> c]

\* str.strip()
RECURSIVE StripLeft(_)
StripLeft(s) == IF s # <<>> /\ Head(s) \in Whitespace THEN StripLeft(Tail(s)) ELSE s
RECURSIVE StripRight(_)
StripRight(s) ==
    IF s # <<>> /\ s[Len(s)] \in Whitespace THEN StripRight(SubSeq(s, 1, Len(s) - 1)) ELSE s
Strip(s) == StripRight(StripLeft(s))

\* str.upper()
Upper(s) == [i \in 1..Len(s) |-> IF s[i] = "a" THEN "A" ELSE s[i]]

\* re.fullmatch of a character class repeated lo..hi times.
FullMatch(class, lo, hi, s) == Len(s) \in lo..hi /\ \A i \in 1..Len(s) : s[i] \in class

\* The KRX table: rows of company name and six-digit code.  Loading it
\* (a cached CSV or a download) either gives one of these tables or raises.
Code1 == <<"0", "0", "5", "9", "3", "0">>
Code2 == <<"0", "3", "5", "4", "2", "0">>
KrxTables ==
    {<<>>,
     <<[name |-> <<"k">>, code |-> Code1]>>,
     <<[name |-> <<"k", "k">>, code |-> Code2], [name |-> <<"k">>, code |-> Code1],
       [name |-> <<"k">>, code |-> Code2], [name |-> <<"k", " ", "k">>, code |-> Code2],
       [name |-> <<"A", "A">>, code |-> Code1]>>}

\* _to_ticker (lines 75-87): a value, None, or the exception of
\* _load_krx_ticker_table.
to_ticker(user_input, table, load_ok) ==
    LET s == Strip(user_input) IN
    IF FullMatch(Digits, TickerDigits, TickerDigits, s)
    THEN [status |-> "value", value |-> s]
    ELSE IF FullMatch(Letters \cup {"-", "."}, 1, TickerMaxLen, s)
    THEN [status |-> "value", value |-> Upper(s)]
    ELSE IF ~load_ok
    THEN [status |-> "raise", value |-> <<>>]
    ELSE LET hit == SelectSeq(table, LAMBDA row : row.name = s)
         IN  IF hit # <<>> THEN [status |-> "value", value |-> hit[1].code]
             ELSE [status |-> "None", value |-> <<>>]

\* A variant without the None check of lines 130-131.
identify_ticker_unchecked(user_input, table, load_ok) ==
    LET ticker == to_ticker(user_input, table, load_ok) IN
    CASE ticker.status = "raise" -> [kind |-> "raise", exc |-> "LoadError", value |-> <<>>]
      [] ticker.status = "None" -> [kind |-> "return_None", exc |-> "none", value |-> <<>>]
      [] OTHER -> [kind |-> "return", exc |-> "none", value |-> ticker.value]

\* identify_ticker (lines 124-132)
identify_ticker(user_input, table, load_ok) ==
    LET ticker == to_ticker(user_input, table, load_ok) IN
    CASE ticker.status = "raise" -> [kind |-> "raise", exc |-> "LoadError", value |-> <<>>]
      [] ticker.status = "None" -> [kind |-> "raise", exc |-> "ValueError", value |-> <<>>]
      [] OTHER -> [kind |-> "return", exc |-> "none", value |-> ticker.value]

TickerInputs ==
    LET cores == {Rep(c, n) : c \in Chars, n \in 0..MaxRunLen}
                 \cup SeqsUpTo(Chars, 2)
                 \cup {Rep("7", TickerDigits - 1) \o <<c>> : c \in Chars}
                 \cup {Rep("a", TickerMaxLen - 1) \o <<c>> : c \in Chars}
                 \cup {<<"k", " ", "k">>}
        pads == {<<>>, <<" ">>}
    IN  {l \o core \o r : l \in pads, core \in cores, r \in pads}

InitTicker ==
    /\ tk \in {[pc |-> "ready", user_input |-> u, table |-> t, load_ok |-> ok,
                result |-> [kind |-> "none", exc |-> "none", value |-> <<>>]] :
                  u \in TickerInputs, t \in KrxTables, ok \in BOOLEAN}
    /\ app = Off
    /\ bt = Off
    /\ pf = Off
    /\ tp = Off
    /\ wt = Off
    /\ iss = Off
    /\ lq = Off
    /\ ph = Off
    /\ ac = Off
    /\ uh = Off
    /\ eng = Off

TkIdentify ==
    /\ tk.pc = "ready"
    /\ tk' = [tk EXCEPT !.pc = "done",
                        !.result = identify_ticker(tk.user_input, tk.table, tk.load_ok)]
    /\ UNCHANGED othersTk

NextTicker == TkIdentify

SpecTicker == InitTicker /\ [][NextTicker]_vars

IsSixDigits(s) == Len(s) = 6 /\ \A i \in 1..Len(s) : s[i] \in Digits
IsLetterTicker(s) ==
    Len(s) >= 1 /\ Len(s) <= 10 /\ \A i \in 1..Len(s) : s[i] \in {"a", "A", "-", "."}
UpperCased(s, t) ==
    Len(t) = Len(s) /\ \A i \in 1..Len(s) : t[i] = (IF s[i] = "a" THEN "A" ELSE s[i])
Returned(v) == [kind |-> "return", exc |-> "none", value |-> v]
Raised(e) == [kind |-> "raise", exc |-> e, value |-> <<>>]

\* The first row of the table whose company name is s, if any.
NamedRows(table, s) == {i \in 1..Len(table) : table[i].name = s}
FirstNamed(table, s) == CHOOSE i \in NamedRows(table, s) : \A j \in NamedRows(table, s) : i <= j

\* The outcome the contract gives for the classified string s.
TickerContract(s, t) ==
    IF IsSixDigits(s) THEN t.result = Returned(s)
    ELSE IF IsLetterTicker(s) THEN t.result.kind = "return" /\ UpperCased(s, t.result.value)
    ELSE IF NamedRows(t.table, s) # {}
         THEN t.result = Returned(t.table[FirstNamed(t.table, s)].code)
         ELSE t.result = Raised("ValueError")

Trimmed(s) ==
    CHOOSE t \in {SubSeq(s, i, j) : i \in 1..(Len(s) + 1), j \in 0..Len(s)} :
        /\ \E i \in 1..(Len(s) + 1), j \in 0..Len(s) :
              /\ t = SubSeq(s, i, j)
              /\ \A k \in 1..Len(s) : (k < i \/ k > j) => s[k] = " "
        /\ t # <<>> => (t[1] # " " /\ t[Len(t)] # " ")

MaxCapUnits == 120    \* largest market capitalisation explored

\* Market capitalisation in units of 100 billion won (1e11).
TenTrillion == 100            \* 10_000_000_000_000
OneTrillion == 10             \*  1_000_000_000_000
TwoHundredBillion == 2        \*    200_000_000_000

\* The arguments: None, a number, or a value that cannot be compared with
\* an int (a str, for which >= raises TypeError).
MarketCaps ==
    {[type |-> "NoneType", units |-> 0], [type |-> "str", units |-> 0]}
    \cup {[type |-> "number", units |-> n] : n \in 0..MaxCapUnits}

\* estimate_liquidity_size (lines 59-76).  The labels stand for the source's
\* "초대형" (mega), "대형" (large), "중형" (mid), "소형" (small) and
\* "정보 없음" (no_info).
estimate_liquidity_size(market_cap) ==
    IF market_cap.type = "NoneType" THEN "no_info"
    ELSE IF market_cap.type # "number" THEN "no_info"    \* bare except, line 75
    ELSE IF market_cap.units >= TenTrillion THEN "mega"
    ELSE IF market_cap.units >= OneTrillion THEN "large"
    ELSE IF market_cap.units >= TwoHundredBillion THEN "mid"
    ELSE "small"

InitLiquidity ==
    /\ lq \in {[pc |-> "ready", market_cap |-> m, result |-> "none"] : m \in MarketCaps}
    /\ app = Off
    /\ bt = Off
    /\ pf = Off
    /\ tp = Off
    /\ wt = Off
    /\ iss = Off
    /\ tk = Off
    /\ ph = Off
    /\ ac = Off
    /\ uh = Off
    /\ eng = Off

LqEstimate ==
    /\ lq.pc = "ready"
    /\ lq' = [lq EXCEPT !.pc = "done", !.result = estimate_liquidity_size(lq.market_cap)]
    /\ UNCHANGED othersLq

NextLiquidity == LqEstimate

SpecLiquidity == InitLiquidity /\ [][NextLiquidity]_vars

\* C10: the classification follows the documented boundaries: large above
\* 10 trillion, mid from 1 trillion to 10 trillion, small below 1 trillion,
\* and "no information" for None.
C10_DocumentedBoundaries ==
    lq.pc = "done" =>
        /\ lq.market_cap.type = "NoneType" => lq.result = "no_info"
        /\ lq.market_cap.type = "number" =>
              /\ lq.market_cap.units > 100 => lq.result = "large"
              /\ (lq.market_cap.units >= 10 /\ lq.market_cap.units <= 100)
                    => lq.result = "mid"
              /\ lq.market_cap.units < 10 => lq.result = "small"

(***************************************************************************)
(* modules/module_09.py : track_portfolio_performance                      *)
(***************************************************************************)
MaxCalls == 3          \* calls chained on one history
MaxNewEntries == 2     \* entries of one new_data argument

\* The number of dates kept (the slice [-30:] of line 13).
HistoryWindow == 30

\* Calendar days are numbered from 1 June: 1..30 is June, 31..61 is July.
\* BaseDays are the days of the histories a chain starts from, NewDays the
\* days a new_data argument may carry: before, inside and after BaseDays.
BaseDays == 3..31
LongDays == 3..34
NewDays == {1, 17, 32, 33}
ReturnLevels == {1, 2}

\* The date_str key of a day: the month and day fields of "YYYY-MM-DD",
\* zero-padded, as the sequence of their digits.
date_str(n) ==
    IF n <= 30 THEN <<0, 6, n \div 10, n % 10>>
    ELSE <<0, 7, (n - 30) \div 10, (n - 30) % 10>>

\* Python's order on str: the first differing character decides, and a
\* proper prefix is smaller.
StrLess(a, b) ==
    \/ \E i \in 1..Min2(Len(a), Len(b)) :
          /\ \A j \in 1..(i - 1) : a[j] = b[j]
          /\ a[i] < b[i]
    \/ /\ Len(a) < Len(b)
       /\ \A j \in 1..Len(a) : a[j] = b[j]

\* dict.update (line 11).
DictUpdate(d, other) ==
    [k \in (DOMAIN d) \cup (DOMAIN other) |->
        IF k \in DOMAIN other THEN other[k] ELSE d[k]]

\* sorted(keys)[:n], the mutation of SortedLast that keeps the oldest keys.
SortedFirst(keys, n) ==
    {k \in keys : Cardinality({j \in keys : StrLess(j, k)}) < n}

\* sorted(keys)[-n:] (line 13).
SortedLast(keys, n) ==
    {k \in keys : Cardinality({j \in keys : StrLess(k, j)}) < n}

\* track_portfolio_performance (lines 6-15).
track_portfolio_performance(performance_history, new_data) ==
    LET updated == DictUpdate(performance_history, new_data)
        dates == SortedLast(DOMAIN updated, HistoryWindow)
    IN  [d \in dates |-> updated[d]]

\* A dict {date_str(n): level} over the given days.
ConstantDict(days, v) == [k \in {date_str(n) : n \in days} |-> v]

NewDatas ==
    UNION {[{date_str(n) : n \in ds} -> ReturnLevels] :
              ds \in {s \in SUBSET NewDays : Cardinality(s) <= MaxNewEntries}}

\* history is the dict the caller holds; supplied[k] is the value most
\* recently supplied for key k, by the starting history or by a new_data;
\* resupplied records that a key arrived again with another value.
InitHistory ==
    /\ ph \in {[pc |-> "ready", history |-> h, supplied |-> h, calls |-> 0,
                resupplied |-> FALSE] :
                  h \in {ConstantDict({}, 1), ConstantDict(BaseDays, 1),
                         ConstantDict(LongDays, 1)}}
    /\ app = Off
    /\ bt = Off
    /\ pf = Off
    /\ tp = Off
    /\ wt = Off
    /\ iss = Off
    /\ tk = Off
    /\ lq = Off
    /\ ac = Off
    /\ uh = Off
    /\ eng = Off

\* perf_hist = track_portfolio_performance(perf_hist, new_perf) (line 94).
PhTrack ==
    /\ ph.pc = "ready"
    /\ ph.calls < MaxCalls
    /\ \E new_data \in NewDatas :
          ph' = [ph EXCEPT
                   !.history = track_portfolio_performance(ph.history, new_data),
                   !.supplied = [k \in (DOMAIN ph.supplied) \cup (DOMAIN new_data) |->
                                    IF k \in DOMAIN new_data THEN new_data[k]
                                    ELSE ph.supplied[k]],
                   !.calls = ph.calls + 1,
                   !.resupplied = ph.resupplied \/
                       \E k \in (DOMAIN new_data) \cap (DOMAIN ph.supplied) :
                           new_data[k] # ph.supplied[k]]
    /\ UNCHANGED othersPh

NextHistory == PhTrack

SpecHistory == InitHistory /\ [][NextHistory]_vars

\* The calendar day a key stands for.
DayOf(key) == CHOOSE n \in 1..61 : date_str(n) = key

\* The keys of the n most recent calendar days among keys.
MostRecentDays(keys, n) ==
    {k \in keys : Cardinality({j \in keys : DayOf(j) > DayOf(k)}) < n}

\* C11: after any chain of calls the returned history has at most 30
\* entries, its keys are the 30 most recent dates among everything merged so
\* far, and each key carries the value most recently supplied for it.
C11_KeepsMostRecent30 ==
    ph.pc = "ready" /\ ph.calls >= 1 =>
        /\ Cardinality(DOMAIN ph.history) <= 30
        /\ DOMAIN ph.history = MostRecentDays(DOMAIN ph.supplied, 30)
        /\ \A k \in DOMAIN ph.history : ph.history[k] = ph.supplied[k]

\* C11 witness: a chain of calls that supplied more than 30 dates, one of
\* them twice with different values, and dropped a date older than the kept
\* ones while keeping a resupplied one.
C11_Witness ==
    /\ ph.pc = "ready"
    /\ ph.calls >= 2
    /\ Cardinality(DOMAIN ph.supplied) > 30
    /\ ph.resupplied
    /\ date_str(17) \in DOMAIN ph.history
    /\ ph.history[date_str(17)] = 2
    /\ date_str(33) \in DOMAIN ph.history
    /\ date_str(3) \notin DOMAIN ph.history

(***************************************************************************)
(* modules/module_26.py : StrategyAutoControl                              *)
(***************************************************************************)
MaxUtcDay == 3         \* UTC days that pass while the object lives

\* Arguments of check_auto_suspend; trust scores and thresholds in tenths.
VixLevels == {25, 30, 31}
TrustTenths == {3, 4, 5}
DefaultVixThreshold == 30        \* vix_threshold: float = 30
DefaultTrustThreshold == 4       \* trust_threshold: float = 0.4
VixThresholds == {DefaultVixThreshold, 25}
TrustThresholds == {DefaultTrustThreshold, 5}
DefaultExpectedDays == 3         \* expected_days: int = 3

NoDate == [set |-> FALSE, day |-> 0]
DateOn(d) == [set |-> TRUE, day |-> d]

\* The record of the most recent method call: its arguments, the state it
\* found and what it returned.
NoCall ==
    [op |-> "init", vix |-> 0, trust |-> 0, vix_threshold |-> 0,
     trust_threshold |-> 0, prev_state |-> "ACTIVE", ret |-> "none",
     resume_date |-> NoDate]

\* StrategyAutoControl.__init__ (lines 95-97).
InitAutoControl ==
    /\ ac = [pc |-> "ready", state |-> "ACTIVE", last_suspend_date |-> NoDate,
             utc_today |-> 0, cleared |-> FALSE, last |-> NoCall]
    /\ app = Off
    /\ bt = Off
    /\ pf = Off
    /\ tp = Off
    /\ wt = Off
    /\ iss = Off
    /\ tk = Off
    /\ lq = Off
    /\ ph = Off
    /\ uh = Off
    /\ eng = Off

\* datetime.utcnow().date() moves on to the next day.
AcMidnight ==
    /\ ac.pc = "ready"
    /\ ac.utc_today < MaxUtcDay
    /\ ac' = [ac EXCEPT !.utc_today = ac.utc_today + 1]
    /\ UNCHANGED othersAc

\* check_auto_suspend (lines 99-113).  cleared records that the most recent
\* check found both conditions met.
AcCheckAutoSuspend ==
    /\ ac.pc = "ready"
    /\ \E vix \in VixLevels, trust_score \in TrustTenths,
          vix_threshold \in VixThresholds, trust_threshold \in TrustThresholds :
          LET call == [op |-> "check_auto_suspend", vix |-> vix,
                       trust |-> trust_score, vix_threshold |-> vix_threshold,
                       trust_threshold |-> trust_threshold,
                       prev_state |-> ac.state, ret |-> "none",
                       resume_date |-> NoDate]
          IN  IF vix > vix_threshold \/ trust_score < trust_threshold
              THEN ac' = [ac EXCEPT
                            !.state = "SUSPENDED",
                            !.last_suspend_date = DateOn(ac.utc_today),
                            !.cleared = FALSE,
                            !.last = [call EXCEPT !.ret = "suspended"]]
              ELSE ac' = [ac EXCEPT
                            !.cleared = TRUE,
                            !.last = [call EXCEPT !.ret = "kept"]]
    /\ UNCHANGED othersAc

\* get_resume_forecast (lines 115-126).
AcGetResumeForecast ==
    /\ ac.pc = "ready"
    /\ LET call == [NoCall EXCEPT !.op = "get_resume_forecast",
                                  !.prev_state = ac.state]
       IN  IF ac.state = "SUSPENDED" /\ ac.last_suspend_date.set
           THEN ac' = [ac EXCEPT !.last =
                    [call EXCEPT !.ret = "non_action_zone",
                                 !.resume_date =
                                     DateOn(ac.last_suspend_date.day + DefaultExpectedDays)]]
           ELSE ac' = [ac EXCEPT !.last = [call EXCEPT !.ret = "normal_operation"]]
    /\ UNCHANGED othersAc

NextAutoControl == AcMidnight \/ AcCheckAutoSuspend \/ AcGetResumeForecast

SpecAutoControl == InitAutoControl /\ [][NextAutoControl]_vars

\* C12: a check_auto_suspend call that finds the strategy SUSPENDED and is
\* given vix <= vix_threshold and trust_score >= trust_threshold returns the
\* state to ACTIVE, and a get_resume_forecast that follows such a check
\* reports normal operation.
C12_ResumedWhenConditionsMet ==
    /\ (/\ ac.last.op = "check_auto_suspend"
        /\ ac.last.prev_state = "SUSPENDED"
        /\ ac.last.vix <= ac.last.vix_threshold
        /\ ac.last.trust >= ac.last.trust_threshold)
          => ac.state = "ACTIVE"
    /\ (ac.last.op = "get_resume_forecast" /\ ac.cleared)
          => ac.last.ret = "normal_operation"

(***************************************************************************)
(* modules/module_09.py : save_user_history                                *)
(***************************************************************************)
NumSavers == 2         \* sessions saving to the same user's history file

Savers == 1..NumSavers

\* Key 0 is the key a file that exists at the start holds; saver s passes
\* its own key s, alone or together with key 0.
StoredKey == 0
EmptyDict == [k \in {} |-> 0]
SaverData(s) == {[k \in ks |-> s] : ks \in {{s}, {StoredKey, s}}}

\* The file {user_id}_history.json: absent, holding a JSON object, or
\* holding text that json.load rejects (truncated by open(.., 'w') and not
\* yet written, or overwritten by two writers at once).
AbsentFile == [kind |-> "absent", content |-> EmptyDict]
JsonFile(d) == [kind |-> "json", content |-> d]
InvalidFile == [kind |-> "invalid", content |-> EmptyDict]

IdleSaver ==
    [pc |-> "idle", data |-> EmptyDict, history |-> EmptyDict, ret |-> "none"]

\* One user's file and the sessions about to save; stored_before is the key
\* set the file held at the start.
InitUserHistory ==
    /\ uh \in {[pc |-> "run", file |-> f, stored_before |-> DOMAIN f.content,
                saver |-> [s \in Savers |-> IdleSaver]] :
                  f \in {AbsentFile, JsonFile([k \in {StoredKey} |-> 0])}}
    /\ app = Off
    /\ bt = Off
    /\ pf = Off
    /\ tp = Off
    /\ wt = Off
    /\ iss = Off
    /\ tk = Off
    /\ lq = Off
    /\ ph = Off
    /\ ac = Off
    /\ eng = Off

\* The except branch (lines 80-81): the failure message is returned.
SaveFailed(s) ==
    uh' = [uh EXCEPT !.saver[s].pc = "done", !.saver[s].ret = "failure"]

\* A session calls save_user_history(user_id, data) (line 63).
UhCall(s) ==
    /\ uh.saver[s].pc = "idle"
    /\ \E data \in SaverData(s) :
          uh' = [uh EXCEPT !.saver[s].pc = "makedirs", !.saver[s].data = data]
    /\ UNCHANGED othersUh

\* os.makedirs(base_path, exist_ok=True) (line 65); it raises OSError where
\* the directory cannot be created.
UhMakedirs(s) ==
    /\ uh.saver[s].pc = "makedirs"
    /\ \E writable \in BOOLEAN :
          IF writable
          THEN uh' = [uh EXCEPT !.saver[s].pc = "exists"]
          ELSE SaveFailed(s)
    /\ UNCHANGED othersUh

\* os.path.exists(file_path) (lines 68, 71-72).
UhExists(s) ==
    /\ uh.saver[s].pc = "exists"
    /\ IF uh.file.kind = "absent"
       THEN uh' = [uh EXCEPT
                     !.saver[s].pc = "open_w",
                     !.saver[s].history = DictUpdate(EmptyDict, uh.saver[s].data)]
       ELSE uh' = [uh EXCEPT !.saver[s].pc = "load"]
    /\ UNCHANGED othersUh

\* open(file_path, 'r'), json.load and history.update(data) (lines 69-74);
\* json.load raises JSONDecodeError on text that is not JSON.
UhLoad(s) ==
    /\ uh.saver[s].pc = "load"
    /\ IF uh.file.kind = "json"
       THEN uh' = [uh EXCEPT
                     !.saver[s].pc = "open_w",
                     !.saver[s].history = DictUpdate(uh.file.content, uh.saver[s].data)]
       ELSE SaveFailed(s)
    /\ UNCHANGED othersUh

\* open(file_path, 'w') (line 76) truncates the file.
UhOpenWrite(s) ==
    /\ uh.saver[s].pc = "open_w"
    /\ uh' = [uh EXCEPT !.saver[s].pc = "dump", !.file = InvalidFile]
    /\ UNCHANGED othersUh

\* json.dump and the close of the with block (lines 77-79).  When another
\* writer completed since this one truncated, the two texts overlap and
\* the file holds this writer's text or an invalid mixture of both.
UhDump(s) ==
    /\ uh.saver[s].pc = "dump"
    /\ \E f \in {JsonFile(uh.saver[s].history)}
                 \cup (IF uh.file.kind = "json" THEN {InvalidFile} ELSE {}) :
          uh' = [uh EXCEPT !.saver[s].pc = "done", !.saver[s].ret = "success",
                           !.file = f]
    /\ UNCHANGED othersUh

NextUserHistory ==
    \E s \in Savers :
        \/ UhCall(s)
        \/ UhMakedirs(s)
        \/ UhExists(s)
        \/ UhLoad(s)
        \/ UhOpenWrite(s)
        \/ UhDump(s)

SpecUserHistory == InitUserHistory /\ [][NextUserHistory]_vars

\* The calls that returned the success message.
Succeeded == {s \in Savers : uh.saver[s].ret = "success"}

\* C13: once every call has returned, the file holds every key passed by a
\* call that returned the success message together with every key stored
\* before, and every call has returned one of the two messages.
C13_SavedHistoryPreserved ==
    (uh.pc = "run" /\ \A s \in Savers : uh.saver[s].pc = "done") =>
        /\ \A s \in Savers : uh.saver[s].ret \in {"success", "failure"}
        /\ Succeeded # {} =>
              /\ uh.file.kind = "json"
              /\ uh.stored_before \subseteq DOMAIN uh.file.content
              /\ \A s \in Succeeded :
                    DOMAIN uh.saver[s].data \subseteq DOMAIN uh.file.content

(***************************************************************************)
(* modules/module_22.py : AutoExecutionEngine, RiskHedgingTrigger,         *)
(* StrategyTrustMonitor and run_module_22                                  *)
(***************************************************************************)
MaxEngineDay == 7      \* days that pass while the engine lives

\* self.rebalance_interval_days = 7 (line 15).
RebalanceInterval == 7

\* RiskHedgingTrigger.__init__ defaults (line 41), in VIX points and percent.
HedgeVixThreshold == 25
KospiDropPct == 0 - 3
MddLimit == 0 - 12

\* Dates are days counted from the engine's construction.  QueryDays are
\* the dates a caller may pass to should_rebalance.
QueryDays == 0..(MaxEngineDay + RebalanceInterval + 1)

\* Arguments of run_module_22, around the three thresholds.
HedgeVixLevels == {24, 25}
KospiPcts == {0 - 3, 0 - 2}
ExpectedMdds == {0 - 12, 0 - 11}
PredictedReturns == {10}
ActualReturns == {12}

\* A portfolio and what strategy.rebalance makes of it.
NoPortfolio == [id |-> 0, rebalanced |-> FALSE]
Portfolios == {[id |-> 1, rebalanced |-> FALSE]}
Rebalanced(portfolio) == [portfolio EXCEPT !.rebalanced = TRUE]

\* AutoExecutionEngine.should_rebalance with >, the mutation of the interval
\* test of line 24.
should_rebalance_strict(auto_enabled, last_rebalance, today) ==
    IF ~auto_enabled THEN FALSE
    ELSE IF ~last_rebalance.set THEN TRUE
    ELSE today - last_rebalance.day > RebalanceInterval

\* AutoExecutionEngine.should_rebalance (lines 17-24); today is the date
\* that `today or datetime.date.today()` evaluates to.
should_rebalance(auto_enabled, last_rebalance, today) ==
    IF ~auto_enabled THEN FALSE
    ELSE IF ~last_rebalance.set THEN TRUE
    ELSE today - last_rebalance.day >= RebalanceInterval

\* What one execute_rebalance call does: the new last_rebalance, the value
\* returned, whether strategy.rebalance was called and whether an exception
\* left the method.
ExecuteOutcome(last_rebalance, portfolio, called, propagated) ==
    [last_rebalance |-> last_rebalance, portfolio |-> portfolio,
     called |-> called, propagated |-> propagated]

\* execute_rebalance without the auto_enabled guard of lines 27-28.
execute_rebalance_unguarded(auto_enabled, last_rebalance, clock, portfolio, raises) ==
    ExecuteOutcome(DateOn(clock),
                   IF raises THEN portfolio ELSE Rebalanced(portfolio),
                   TRUE, FALSE)

\* execute_rebalance that stamps last_rebalance only after strategy.rebalance
\* returned.
execute_rebalance_stamp_after(auto_enabled, last_rebalance, clock, portfolio, raises) ==
    IF ~auto_enabled
    THEN ExecuteOutcome(last_rebalance, portfolio, FALSE, FALSE)
    ELSE IF raises
         THEN ExecuteOutcome(last_rebalance, portfolio, TRUE, FALSE)
         ELSE ExecuteOutcome(DateOn(clock), Rebalanced(portfolio), TRUE, FALSE)

\* AutoExecutionEngine.execute_rebalance (lines 26-34); clock is
\* datetime.date.today() and raises says whether strategy.rebalance raises.
execute_rebalance(auto_enabled, last_rebalance, clock, portfolio, raises) ==
    IF ~auto_enabled
    THEN ExecuteOutcome(last_rebalance, portfolio, FALSE, FALSE)
    ELSE ExecuteOutcome(DateOn(clock),
                        IF raises THEN portfolio ELSE Rebalanced(portfolio),
                        TRUE, FALSE)

\* RiskHedgingTrigger.check_trigger (lines 46-53): the message, named after
\* the condition it reports, or "None".
check_trigger(vix_value, kospi_change_pct, expected_mdd) ==
    IF vix_value >= HedgeVixThreshold THEN "vix_spike"
    ELSE IF kospi_change_pct <= KospiDropPct THEN "kospi_drop"
    ELSE IF expected_mdd <= MddLimit THEN "mdd_limit"
    ELSE "None"

\* RiskHedgingTrigger.emergency_assets (lines 55-60), in tenths.
NoAssets == [cash |-> 0, gold_etf |-> 0, usd_etf |-> 0]
emergency_assets == [cash |-> 4, gold_etf |-> 3, usd_etf |-> 3]

\* StrategyTrustMonitor.record and trust_report for a single record (lines
\* 70-101): error_pct = abs_error / pred * 100 with pred 0 replaced by 1e-6.
trust_report(predicted_return, actual_return) ==
    LET abs_error == Abs(actual_return - predicted_return)
        over(pct) == IF predicted_return = 0 THEN abs_error > 0
                     ELSE abs_error * 100 > pct * predicted_return
    IN  IF over(20) THEN "low"
        ELSE IF over(10) THEN "medium"
        ELSE "good"

\* The report dict; keys is the set of keys it holds.
NoReport ==
    [keys |-> {}, status |-> "absent", message |-> "absent",
     emergency_assets |-> NoAssets, rebalance |-> "absent",
     trust_feedback |-> "absent", rebalance_executed |-> FALSE,
     portfolio |-> NoPortfolio]

RunOutcome(report, last_rebalance, called, executed) ==
    [report |-> report, last_rebalance |-> last_rebalance, called |-> called,
     executed |-> executed]

\* Steps 2 and 3 of run_module_22 (lines 130-152).
RebalanceAndTrust(auto_enabled, last_rebalance, clock, portfolio, raises, predicted_return, actual_return, override_auto) ==
    LET due == should_rebalance(auto_enabled, last_rebalance, clock)
        ex == execute_rebalance(auto_enabled, last_rebalance, clock, portfolio, raises)
        enter == auto_enabled \/ override_auto
        executed == enter /\ due
        report == [NoReport EXCEPT
            !.keys = {"rebalance", "trust_feedback", "status",
                      "rebalance_executed", "portfolio"},
            !.rebalance = IF ~enter THEN "disabled"
                          ELSE IF due THEN "executed" ELSE "not_due",
            !.trust_feedback = trust_report(predicted_return, actual_return),
            !.status = "ok",
            !.rebalance_executed = executed,
            !.portfolio = IF executed THEN ex.portfolio ELSE portfolio]
    IN  RunOutcome(report,
                   IF executed THEN ex.last_rebalance ELSE last_rebalance,
                   executed /\ ex.called, executed)

\* run_module_22 with the risk check moved after the rebalancing step.
run_module_22_rebalance_first(auto_enabled, last_rebalance, clock, portfolio, raises, vix, kospi_pct, expected_mdd, predicted_return, actual_return, override_auto) ==
    LET risk_msg == check_trigger(vix, kospi_pct, expected_mdd)
        rest == RebalanceAndTrust(auto_enabled, last_rebalance, clock, portfolio,
                                  raises, predicted_return, actual_return,
                                  override_auto)
    IN  IF risk_msg # "None"
        THEN RunOutcome([NoReport EXCEPT
                            !.keys = {"status", "message", "emergency_assets"},
                            !.status = "emergency",
                            !.message = risk_msg,
                            !.emergency_assets = emergency_assets],
                        rest.last_rebalance, rest.called, rest.executed)
        ELSE rest

\* run_module_22 (lines 105-152).
run_module_22(auto_enabled, last_rebalance, clock, portfolio, raises, vix, kospi_pct, expected_mdd, predicted_return, actual_return, override_auto) ==
    LET risk_msg == check_trigger(vix, kospi_pct, expected_mdd)
    IN  IF risk_msg # "None"
        THEN RunOutcome([NoReport EXCEPT
                            !.keys = {"status", "message", "emergency_assets"},
                            !.status = "emergency",
                            !.message = risk_msg,
                            !.emergency_assets = emergency_assets],
                        last_rebalance, FALSE, FALSE)
        ELSE RebalanceAndTrust(auto_enabled, last_rebalance, clock, portfolio,
                               raises, predicted_return, actual_return,
                               override_auto)

\* The record of the most recent call on the engine.
NoEngineCall ==
    [op |-> "init", today |-> 0, ret |-> FALSE, portfolio_in |-> NoPortfolio,
     portfolio_out |-> NoPortfolio, called |-> FALSE, raises |-> FALSE,
     propagated |-> FALSE, prev_last_rebalance |-> NoDate, vix |-> 0,
     kospi_pct |-> 0, expected_mdd |-> 0, override_auto |-> FALSE,
     report |-> NoReport]

\* AutoExecutionEngine.__init__ (lines 12-15).  executed_on is the day of
\* the most recent execute_rebalance call and exec_raised whether
\* strategy.rebalance raised in it.
InitEngine ==
    /\ eng \in {[pc |-> "ready", auto_enabled |-> a, last_rebalance |-> NoDate,
                 clock |-> 0, executed_on |-> NoDate, exec_raised |-> FALSE,
                 last |-> NoEngineCall] : a \in BOOLEAN}
    /\ app = Off
    /\ bt = Off
    /\ pf = Off
    /\ tp = Off
    /\ wt = Off
    /\ iss = Off
    /\ tk = Off
    /\ lq = Off
    /\ ph = Off
    /\ ac = Off
    /\ uh = Off

\* datetime.date.today() moves on to the next day.
EngMidnight ==
    /\ eng.pc = "ready"
    /\ eng.clock < MaxEngineDay
    /\ eng' = [eng EXCEPT !.clock = eng.clock + 1]
    /\ UNCHANGED othersEng

\* A call of should_rebalance, with a date or with None.
EngShouldRebalance ==
    /\ eng.pc = "ready"
    /\ \E arg \in {NoDate} \cup {DateOn(d) : d \in QueryDays} :
          LET today == IF arg.set THEN arg.day ELSE eng.clock
          IN  eng' = [eng EXCEPT !.last =
                  [NoEngineCall EXCEPT
                      !.op = "should_rebalance",
                      !.today = today,
                      !.prev_last_rebalance = eng.last_rebalance,
                      !.ret = should_rebalance(eng.auto_enabled,
                                               eng.last_rebalance, today)]]
    /\ UNCHANGED othersEng

\* A call of execute_rebalance with a strategy that returns or raises.
EngExecuteRebalance ==
    /\ eng.pc = "ready"
    /\ \E portfolio \in Portfolios, raises \in BOOLEAN :
          LET ex == execute_rebalance(eng.auto_enabled, eng.last_rebalance,
                                      eng.clock, portfolio, raises)
          IN  eng' = [eng EXCEPT
                  !.last_rebalance = ex.last_rebalance,
                  !.executed_on = DateOn(eng.clock),
                  !.exec_raised = raises,
                  !.last = [NoEngineCall EXCEPT
                      !.op = "execute_rebalance",
                      !.today = eng.clock,
                      !.prev_last_rebalance = eng.last_rebalance,
                      !.portfolio_in = portfolio,
                      !.portfolio_out = ex.portfolio,
                      !.called = ex.called,
                      !.raises = raises,
                      !.propagated = ex.propagated]]
    /\ UNCHANGED othersEng

\* A call of run_module_22 on the engine.
EngRunModule22 ==
    /\ eng.pc = "ready"
    /\ \E portfolio \in Portfolios, raises \in BOOLEAN, vix \in HedgeVixLevels,
          kospi_pct \in KospiPcts, expected_mdd \in ExpectedMdds,
          predicted_return \in PredictedReturns, actual_return \in ActualReturns,
          override_auto \in BOOLEAN :
          LET out == run_module_22(eng.auto_enabled, eng.last_rebalance, eng.clock,
                                   portfolio, raises, vix, kospi_pct, expected_mdd,
                                   predicted_return, actual_return, override_auto)
          IN  eng' = [eng EXCEPT
                  !.last_rebalance = out.last_rebalance,
                  !.executed_on = IF out.executed THEN DateOn(eng.clock) ELSE @,
                  !.exec_raised = IF out.executed THEN raises ELSE @,
                  !.last = [NoEngineCall EXCEPT
                      !.op = "run_module_22",
                      !.today = eng.clock,
                      !.prev_last_rebalance = eng.last_rebalance,
                      !.portfolio_in = portfolio,
                      !.portfolio_out = out.report.portfolio,
                      !.called = out.called,
                      !.raises = raises,
                      !.vix = vix,
                      !.kospi_pct = kospi_pct,
                      !.expected_mdd = expected_mdd,
                      !.override_auto = override_auto,
                      !.report = out.report]]
    /\ UNCHANGED othersEng

NextEngine ==
    EngMidnight \/ EngShouldRebalance \/ EngExecuteRebalance \/ EngRunModule22

SpecEngine == InitEngine /\ [][NextEngine]_vars

\* C14: with auto_enabled True, should_rebalance is True while no rebalance
\* has been executed; after execute_rebalance ran on day d it is False for
\* d <= today < d + 7 and True for today >= d + 7.
C14_SevenDayInterval ==
    (eng.pc = "ready" /\ eng.last.op = "should_rebalance" /\ eng.auto_enabled) =>
        /\ ~eng.executed_on.set => eng.last.ret = TRUE
        /\ (/\ eng.executed_on.set
            /\ eng.executed_on.day <= eng.last.today
            /\ eng.last.today < eng.executed_on.day + 7) => eng.last.ret = FALSE
        /\ (/\ eng.executed_on.set
            /\ eng.last.today >= eng.executed_on.day + 7) => eng.last.ret = TRUE

\* C14 witness: the engine is asked exactly 7 days after a rebalance that
\* was executed on a day after construction, and answers True.
C14_Witness ==
    /\ eng.pc = "ready"
    /\ eng.last.op = "should_rebalance"
    /\ eng.auto_enabled
    /\ eng.executed_on.set
    /\ eng.executed_on.day >= 1
    /\ eng.last.today = eng.executed_on.day + 7
    /\ eng.last.ret = TRUE

\* C15: while auto_enabled is False, should_rebalance returns False for
\* every date, and execute_rebalance returns the portfolio it was given,
\* does not call strategy.rebalance and leaves last_rebalance unchanged.
C15_DisabledEngineInert ==
    (eng.pc = "ready" /\ ~eng.auto_enabled) =>
        /\ eng.last.op = "should_rebalance" => eng.last.ret = FALSE
        /\ eng.last.op = "execute_rebalance" =>
              /\ eng.last.portfolio_out = eng.last.portfolio_in
              /\ ~eng.last.called
              /\ eng.last_rebalance = eng.last.prev_last_rebalance
        /\ ~eng.last_rebalance.set

\* C15 witness: execute_rebalance was called on a disabled engine, with a
\* strategy that would have rebalanced, on a day after construction.
C15_Witness ==
    /\ eng.pc = "ready"
    /\ ~eng.auto_enabled
    /\ eng.last.op = "execute_rebalance"
    /\ ~eng.last.raises
    /\ eng.clock >= 1
    /\ eng.last.portfolio_out = eng.last.portfolio_in

\* C16: when strategy.rebalance raises inside execute_rebalance on an
\* enabled engine, no exception leaves the method, the portfolio given is
\* returned and last_rebalance is the day of the call; should_rebalance is
\* then False on that day and on the 6 days after it.
C16_FailedRebalanceStillStamps ==
    (eng.pc = "ready" /\ eng.auto_enabled) =>
        /\ (eng.last.op = "execute_rebalance" /\ eng.last.raises) =>
              /\ ~eng.last.propagated
              /\ eng.last.portfolio_out = eng.last.portfolio_in
              /\ eng.last_rebalance = DateOn(eng.last.today)
        /\ (/\ eng.last.op = "should_rebalance"
            /\ eng.executed_on.set
            /\ eng.exec_raised
            /\ eng.executed_on.day <= eng.last.today
            /\ eng.last.today < eng.executed_on.day + 7) => eng.last.ret = FALSE

\* C16 witness: six days after an execute_rebalance in which the strategy
\* raised, should_rebalance has answered False.
C16_Witness ==
    /\ eng.pc = "ready"
    /\ eng.auto_enabled
    /\ eng.last.op = "should_rebalance"
    /\ eng.executed_on.set
    /\ eng.exec_raised
    /\ eng.last.today = eng.executed_on.day + 6
    /\ eng.last.ret = FALSE

\* C17: whenever vix >= 25 or kospi_pct <= -3.0 or expected_mdd <= -12.0,
\* the report of run_module_22 has status "emergency", the emergency
\* allocation cash 0.4 / gold_etf 0.3 / usd_etf 0.3 and the message of the
\* first condition that holds in the order VIX, KOSPI, MDD, while
\* strategy.rebalance is not called and last_rebalance is unchanged; when
\* none of the three holds the status is "ok".
C17_RiskCheckPreempts ==
    (eng.pc = "ready" /\ eng.last.op = "run_module_22") =>
        LET vix_hit == eng.last.vix >= 25
            kospi_hit == eng.last.kospi_pct <= 0 - 3
            mdd_hit == eng.last.expected_mdd <= 0 - 12
        IN  /\ (vix_hit \/ kospi_hit \/ mdd_hit) =>
                  /\ eng.last.report.status = "emergency"
                  /\ eng.last.report.emergency_assets =
                         [cash |-> 4, gold_etf |-> 3, usd_etf |-> 3]
                  /\ eng.last.report.message =
                         (IF vix_hit THEN "vix_spike"
                          ELSE IF kospi_hit THEN "kospi_drop" ELSE "mdd_limit")
                  /\ ~eng.last.called
                  /\ eng.last_rebalance = eng.last.prev_last_rebalance
            /\ ~(vix_hit \/ kospi_hit \/ mdd_hit) => eng.last.report.status = "ok"

\* C17 witness: run_module_22 met a KOSPI drop together with an MDD breach
\* on an enabled engine whose rebalance was due, and reported the KOSPI
\* emergency.
C17_Witness ==
    /\ eng.pc = "ready"
    /\ eng.last.op = "run_module_22"
    /\ eng.auto_enabled
    /\ should_rebalance(eng.auto_enabled, eng.last.prev_last_rebalance, eng.last.today)
    /\ eng.last.vix < 25
    /\ eng.last.kospi_pct <= 0 - 3
    /\ eng.last.expected_mdd <= 0 - 12
    /\ eng.last.report.status = "emergency"
    /\ eng.last.report.message = "kospi_drop"

=============================================================================
